---------------------------- MODULE Spec2Model ----------------------------
(***************************************************************************)
(* A model of questions.py: the corpus loader get_questions, the module    *)
(* initialisation that binds `questions`, and the three prompt composers   *)
(* question_format, validation_format and question_generator.              *)
(*                                                                         *)
(* Text is modelled as a sequence of atoms.  An atom of a template is one  *)
(* literal piece of the source text of the f-string (a heading, a catalog  *)
(* entry, a line), a replacement field such as {question}, or an escaped   *)
(* brace.  An atom of an input is a piece of caller text.  The corpus file *)
(* is modelled as the sequence of JSON tokens it holds.                    *)
(***************************************************************************)
EXTENDS Naturals, Sequences, FiniteSets, TLC

(***************************************************************************)
(* State.                                                                  *)
(*   corpus     the file all_questions.json                                *)
(*   pc         "import" while the module body has not run, then "ready";  *)
(*              "crashed" if the module body raised                        *)
(*   questions  the module-level name bound by the assignment of line 15   *)
(*   targets    the module-level name questions_generator, bound at import *)
(*   load       what the last run of get_questions returned and raised,    *)
(*              kept for as long as the file stays as that run found it    *)
(*   call       the last composer call: composer, input, returned text     *)
(*   memo       the one composer call an observer notes, with the corpus   *)
(*              file as it was at that call, and whether it is still the   *)
(*              last composer call                                         *)
(*   frames     for each concurrent caller, the composer call it is in:    *)
(*              composer, input, how far the call has got, returned text   *)
(*   prompts    the name prompt of each scope: what a call in flight has   *)
(*              bound to it                                                *)
(***************************************************************************)
VARIABLES corpus, pc, questions, targets, load, call, memo, frames, prompts

vars == <<corpus, pc, questions, targets, load, call, memo, frames, prompts>>

(***************************************************************************)
(* Bounds of the model.                                                    *)
(***************************************************************************)
\* longest list of records the external writer stores in the corpus file
MaxRecords == 2
\* longest caller input, in atoms
MaxInputLen == 1

(***************************************************************************)
(* JSON values, as json.load builds them: list, dict, str, int and the     *)
(* literals.  One record shape for all of them, so that any two values     *)
(* compare.  A dict is the ordered sequence of its (key, value) pairs.     *)
(***************************************************************************)
JStr(s) == [kind |-> "str", s |-> s, n |-> 0, items |-> <<>>]
JNum(n) == [kind |-> "int", s |-> "", n |-> n, items |-> <<>>]
JLit(s) == [kind |-> "lit", s |-> s, n |-> 0, items |-> <<>>]
JArr(items) == [kind |-> "list", s |-> "", n |-> 0, items |-> items]
JObj(pairs) == [kind |-> "dict", s |-> "", n |-> 0, items |-> pairs]
JPair(k, v) == [kind |-> "pair", s |-> k, n |-> 0, items |-> <<v>>]

\* the literal [] of the except branch
EmptyList == JArr(<<>>)
\* the name `questions` before module initialisation has bound it
Unbound == [kind |-> "unbound", s |-> "", n |-> 0, items |-> <<>>]

(***************************************************************************)
(* JSON tokens of a file's text.                                           *)
(***************************************************************************)
Tok(k, s, n) == [k |-> k, s |-> s, n |-> n]
LBrack == Tok("punct", "[", 0)
RBrack == Tok("punct", "]", 0)
LBrace == Tok("punct", "{", 0)
RBrace == Tok("punct", "}", 0)
Comma == Tok("punct", ",", 0)
Colon == Tok("punct", ":", 0)
StrTok(s) == Tok("str", s, 0)
NumTok(n) == Tok("int", "", n)
LitTok(s) == Tok("lit", s, 0)
\* bytes that are no JSON token at all
BadTok == Tok("bad", "?", 0)

(***************************************************************************)
(* json.load: a recursive-descent parse of the whole text.  A result is    *)
(* [ok, val, rest]; ok = FALSE stands for json.JSONDecodeError.            *)
(***************************************************************************)
ParseFail == [ok |-> FALSE, val |-> JLit("null"), rest |-> <<>>]
ParseOk(v, rest) == [ok |-> TRUE, val |-> v, rest |-> rest]

\* d[k] = v on a dict: a repeated key keeps its place and takes the new value
RECURSIVE DictSet(_, _, _)
DictSet(pairs, k, v) ==
    IF pairs = <<>> THEN <<JPair(k, v)>>
    ELSE IF Head(pairs).s = k THEN <<JPair(k, v)>> \o Tail(pairs)
    ELSE <<Head(pairs)>> \o DictSet(Tail(pairs), k, v)

RECURSIVE ParseValue(_), ParseElems(_, _), ParseMembers(_, _)
ParseValue(ts) ==
    IF ts = <<>> THEN ParseFail
    ELSE LET t == Head(ts)
             r == Tail(ts)
         IN  IF t.k = "str" THEN ParseOk(JStr(t.s), r)
             ELSE IF t.k = "int" THEN ParseOk(JNum(t.n), r)
             ELSE IF t.k = "lit" THEN ParseOk(JLit(t.s), r)
             ELSE IF t = LBrack THEN
                 IF r # <<>> /\ Head(r) = RBrack THEN ParseOk(JArr(<<>>), Tail(r))
                 ELSE ParseElems(r, <<>>)
             ELSE IF t = LBrace THEN
                 IF r # <<>> /\ Head(r) = RBrace THEN ParseOk(JObj(<<>>), Tail(r))
                 ELSE ParseMembers(r, <<>>)
             ELSE ParseFail

ParseElems(ts, acc) ==
    LET v == ParseValue(ts)
    IN  IF ~v.ok \/ v.rest = <<>> THEN ParseFail
        ELSE IF Head(v.rest) = Comma THEN ParseElems(Tail(v.rest), Append(acc, v.val))
        ELSE IF Head(v.rest) = RBrack THEN ParseOk(JArr(Append(acc, v.val)), Tail(v.rest))
        ELSE ParseFail

ParseMembers(ts, acc) ==
    IF Len(ts) < 2 \/ Head(ts).k # "str" \/ ts[2] # Colon THEN ParseFail
    ELSE LET v == ParseValue(Tail(Tail(ts)))
         IN  IF ~v.ok \/ v.rest = <<>> THEN ParseFail
             ELSE IF Head(v.rest) = Comma
                  THEN ParseMembers(Tail(v.rest), DictSet(acc, Head(ts).s, v.val))
             ELSE IF Head(v.rest) = RBrace
                  THEN ParseOk(JObj(DictSet(acc, Head(ts).s, v.val)), Tail(v.rest))
             ELSE ParseFail

\* json.load(f): the text must be exactly one value ("Extra data" otherwise)
json_load(ts) ==
    LET r == ParseValue(ts)
    IN  IF r.ok /\ r.rest = <<>> THEN r ELSE ParseFail

(***************************************************************************)
(* The external writer of the corpus: json.dump of a value.                *)
(***************************************************************************)
RECURSIVE Dump(_), DumpItems(_)
Dump(v) ==
    IF v.kind = "str" THEN <<StrTok(v.s)>>
    ELSE IF v.kind = "int" THEN <<NumTok(v.n)>>
    ELSE IF v.kind = "lit" THEN <<LitTok(v.s)>>
    ELSE IF v.kind = "pair" THEN <<StrTok(v.s), Colon>> \o Dump(v.items[1])
    ELSE IF v.kind = "list" THEN <<LBrack>> \o DumpItems(v.items) \o <<RBrack>>
    ELSE <<LBrace>> \o DumpItems(v.items) \o <<RBrace>>

DumpItems(items) ==
    IF items = <<>> THEN <<>>
    ELSE IF Len(items) = 1 THEN Dump(items[1])
    ELSE Dump(items[1]) \o <<Comma>> \o DumpItems(Tail(items))

(***************************************************************************)
(* The corpus files the model considers.                                   *)
(***************************************************************************)
SeqsUpTo(S, n) == UNION {[1..k -> S] : k \in 0..n}

\* question records: the record of the scenario, {"q": "x"}, and a bare string
Records == {JObj(<<JPair("q", JStr("x"))>>), JStr("y")}
RecordLists == SeqsUpTo(Records, MaxRecords)
\* well-formed values that are no list
NonListValues ==
    {JObj(<<>>), JObj(<<JPair("q", JStr("x"))>>), JNum(1), JStr("y"),
     JLit("true"), JLit("null")}
JsonValues == {JArr(l) : l \in RecordLists} \cup NonListValues
ValidTexts == {Dump(v) : v \in JsonValues}

\* a text cut short (a write that did not finish), and a text with a token lost
Prefixes(ts) == {SubSeq(ts, 1, k) : k \in 0..Len(ts)}
Deletions(ts) == {SubSeq(ts, 1, i - 1) \o SubSeq(ts, i + 1, Len(ts)) : i \in 1..Len(ts)}
CorpusTexts ==
    ValidTexts
    \cup UNION {Prefixes(t) : t \in ValidTexts}
    \cup UNION {Deletions(t) : t \in ValidTexts}
    \cup {<<BadTok>>, <<LBrack, RBrack, RBrack>>, <<LBrack, StrTok("y"), Comma, RBrack>>}

Absent == [state |-> "absent", content |-> <<>>]
Unreadable(t) == [state |-> "unreadable", content |-> t]
Present(t) == [state |-> "present", content |-> t]
CorpusFiles ==
    {Absent} \cup {Unreadable(t) : t \in {<<>>, <<LBrack, RBrack>>}}
    \cup {Present(t) : t \in CorpusTexts}
\* one file of each class, for the runs that compose prompts: absent,
\* unreadable, malformed, well-formed but no list, and a list of one record
FileClasses ==
    {Absent, Unreadable(<<>>), Present(<<LBrack>>), Present(<<NumTok(1)>>),
     Present(Dump(JArr(<<JStr("y")>>)))}


(***************************************************************************)
(* get_questions: the try body, the bare except, and the value returned.   *)
(***************************************************************************)
\* the body of the try: open("all_questions.json", "r"), then json.load(f)
try_body(f) ==
    IF f.state = "absent" THEN [exc |-> "FileNotFoundError", val |-> Unbound]
    ELSE IF f.state = "unreadable" THEN [exc |-> "OSError", val |-> Unbound]
    ELSE LET r == json_load(f.content)
         IN  IF r.ok THEN [exc |-> "none", val |-> r.val]
             ELSE [exc |-> "JSONDecodeError", val |-> Unbound]

\* handlers that name one exception class instead of catching them all
except_only_missing(exc) == exc = "FileNotFoundError"
except_only_decode(exc) == exc = "JSONDecodeError"
\* the bare `except:` catches every exception
except_catches(exc) == TRUE

\* a loader with no try around its body: what the body raises, the caller gets
get_questions_unguarded(f) ==
    LET b == try_body(f)
    IN  IF b.exc = "none" THEN [raised |-> "none", value |-> b.val]
        ELSE [raised |-> b.exc, value |-> Unbound]

\* a loader that drops repeated records, as list(dict.fromkeys(...)) would
RECURSIVE Dedup(_, _)
Dedup(items, seen) ==
    IF items = <<>> THEN seen
    ELSE IF \E i \in 1..Len(seen) : seen[i] = Head(items) THEN Dedup(Tail(items), seen)
    ELSE Dedup(Tail(items), Append(seen, Head(items)))
get_questions_dedup(f) ==
    LET b == try_body(f)
    IN  IF b.exc # "none" THEN [raised |-> "none", value |-> EmptyList]
        ELSE IF b.val.kind = "list"
             THEN [raised |-> "none", value |-> JArr(Dedup(b.val.items, <<>>))]
        ELSE [raised |-> "none", value |-> b.val]

\* the mode the corpus file is opened in, and what opening it in that mode
\* leaves of the file: reading changes nothing, a writing mode creates the
\* file or empties it (open_mode_truncating: the file opened for update)
open_mode_truncating == "w+"
open_mode == "r"
open_effect(f) ==
    IF open_mode = "r" \/ f.state = "unreadable" THEN f
    ELSE Present(<<>>)

\* a loader whose handler hands the exception on, as `except: raise` would
get_questions_reraising(f) ==
    LET b == try_body(f)
    IN  [raised |-> b.exc, value |-> b.val]

get_questions(f) ==
    LET b == try_body(f)
    IN  IF b.exc = "none" THEN [raised |-> "none", value |-> b.val]
        ELSE IF except_catches(b.exc) THEN [raised |-> "none", value |-> EmptyList]
        ELSE [raised |-> b.exc, value |-> Unbound]

\* the list of target files, bound right after `questions`
questions_generator ==
    <<"./contracts/PanopticPool.sol",
      "./contracts/RiskEngine.sol",
      "./contracts/types/OraclePack.sol",
      "./contracts/types/MarketState.sol",
      "./contracts/types/PoolData.sol",
      "./contracts/types/RiskParameters.sol",
      "./contracts/SemiFungiblePositionManager.sol",
      "./contracts/SemiFungiblePositionManagerV4.sol",
      "./contracts/CollateralTracker.sol",
      "./contracts/libraries/PanopticMath.sol",
      "./contracts/libraries/Math.sol",
      "./contracts/types/TokenId.sol">>


(***************************************************************************)
(* The source text of the three f-strings, in atoms: literal pieces of the *)
(* text in source order, the replacement fields, and the escaped braces.   *)
(* The backquotes of the source text are left out of the atoms.            *)
(***************************************************************************)
question_format_template ==
    <<"You are an **Elite DeFi Security Auditor** specializing in",
      "**Security Question (scope for this run):** ",
      "{question}",
      "**PANOPTIC PROTOCOL CONTEXT:**",
      "**Architecture**: Panoptic enables perpetual options trading on Uniswap pools by",
      "**Key Components**:",
      "* **Position Management**:",
      "PanopticPool.sol (1183 nSLOC",
      "SemiFungiblePositionManager.sol (673 nSLOC",
      "SemiFungiblePositionManagerV4.sol (631 nSLOC",
      "* **Risk & Collateral**:",
      "RiskEngine.sol (1294 nSLOC",
      "CollateralTracker.sol (863 nSLOC",
      "* **Oracle & Math**:",
      "OraclePack.sol (291 nSLOC",
      "PanopticMath.sol (369 nSLOC",
      "Math.sol (641 nSLOC",
      "* **Types & Parameters**:",
      "RiskParameters.sol (72 nSLOC",
      "MarketState.sol (65 nSLOC",
      "PoolData.sol (42 nSLOC",
      "TokenId.sol (232 nSLOC",
      "**Files in Scope**: All 11 core contracts in the contracts/ directory.",
      "**CRITICAL INVARIANTS (derived from protocol specification and code):**",
      "1.",
      "**Solvency Maintenance**",
      "2.",
      "**Collateral Conservation**",
      "3.",
      "**Share Price Monotonicity**",
      "4.",
      "**Interest Index Monotonicity**",
      "5.",
      "**Cross-Collateral Limits**",
      "6.",
      "**Position Size Limits**",
      "7.",
      "**Oracle Delta Limits**",
      "8.",
      "**Safe Mode Activation**",
      "9.",
      "**TWAP Accuracy**",
      "10.",
      "**Price Consistency**",
      "11.",
      "**Liquidation Price Bounds**",
      "12.",
      "**Position Encoding Validity**",
      "13.",
      "**Leg Count Limits**",
      "14.",
      "**Premium Accounting**",
      "15.",
      "**Force Exercise Costs**",
      "16.",
      "**Liquidation Completeness**",
      "17.",
      "**Asset Accounting**",
      "18.",
      "**Deposit Limits**",
      "19.",
      "**Share Transfer Restrictions**",
      "20.",
      "**Credited Shares Logic**",
      "21.",
      "**Interest Accuracy**",
      "22.",
      "**Liquidation Bonus Caps**",
      "23.",
      "**Premium Haircutting**",
      "24.",
      "**Protocol Loss Limits**",
      "25.",
      "**Force Exercise Validation**",
      "26.",
      "**Solvency Check Timing**",
      "**YOUR INVESTIGATION MISSION:**",
      "**ATTACK SURFACE EXPLORATION:**",
      "1.",
      "**Position Minting/Burning**",
      "2.",
      "**Risk Calculations**",
      "3.",
      "**Collateral Management**",
      "4.",
      "**Oracle System**",
      "5.",
      "**Liquidation Mechanism**",
      "6.",
      "**Interest Rate System**",
      "7.",
      "**Premium Settlement**",
      "8.",
      "**Mathematical Operations**",
      "**PANOPTIC-SPECIFIC ATTACK VECTORS:**",
      "**TRUST MODEL:**",
      "**Trusted Roles**:",
      "Uniswap pools",
      "oracle data providers",
      "guardian addresses",
      "**Untrusted Actors**:",
      "Any user minting/burning positions",
      "liquidators",
      "exercisers",
      "attackers attempting price manipulation",
      "**KNOWN ISSUES / EXCLUSIONS:**",
      "Cryptographic primitives (ECDSA, SHA256) are assumed secure",
      "Uniswap pool manipulation (assumed resistant to flash loan attacks)",
      "Oracle data accuracy (oracles are trusted to provide correct data)",
      "Network-level attacks (DDoS, BGP hijacking, DNS poisoning)",
      "EVM runtime bugs unrelated to Panoptic code",
      "Social engineering, phishing, or key theft",
      "Gas optimization, code style, missing comments",
      "Precision loss <0.01% in fee calculations",
      "Test file issues (tests are out of scope)",
      "Market risk (price movements) unless caused by protocol bugs",
      "MEV or front-running attacks unless enabled by protocol vulnerabilities",
      "**VALID IMPACT CATEGORIES (Immunefi Panoptic Bug Bounty):**",
      "**Critical Severity**:",
      "**High Severity**:",
      "**Medium Severity**:",
      "**Low/QA (out of scope)**:",
      "**OUTPUT REQUIREMENTS:**",
      "If you discover a valid vulnerability related to the security question,",
      "produce a **full report** following the format below.",
      "If **no** valid vulnerability emerges after thorough investigation, state exactly:",
      "#NoVulnerability found for this question.",
      "**Do not fabricate or exaggerate issues.**",
      "**Do not** report:",
      "**Focus on one high-quality finding**",
      "**VALIDATION CHECKLIST (Before Reporting):**",
      "**AUDIT REPORT FORMAT** (if vulnerability found):",
      "Audit Report",
      "## Title",
      "## Summary",
      "## Finding Description",
      "## Impact Explanation",
      "## Likelihood Explanation",
      "## Recommendation",
      "## Proof of Concept",
      "**Remember**: False positives harm credibility more than missed findings.",
      "**Now perform STRICT validation of the claim above.**",
      "**Output ONLY:**",
      "- A full audit report (if genuinely valid after passing **all** checks above) following the specified format",
      "#NoVulnerability found for this question.",
      "(if **any** check fails)",
      "**Be ruthlessly skeptical.">>

validation_format_template ==
    <<"You are an **Elite DeFi Security Judge**",
      "Note: Uniswap pools and oracle providers are trusted roles.",
      "**SECURITY CLAIM TO VALIDATE:**",
      "{report}",
      "## **PANOPTIC PROTOCOL VALIDATION FRAMEWORK**",
      "### **PHASE 1: IMMEDIATE DISQUALIFICATION CHECKS**",
      "Reject immediately (",
      "#NoVulnerability",
      ") if **ANY** apply:",
      "#### **A. Scope Violations**",
      "**In-Scope Files (11 total):**",
      "PanopticPool.sol (1183 nSLOC)",
      "RiskEngine.sol (1294 nSLOC)",
      "CollateralTracker.sol (863 nSLOC)",
      "SemiFungiblePositionManager.sol (673 nSLOC)",
      "SemiFungiblePositionManagerV4.sol (631 nSLOC)",
      "OraclePack.sol (291 nSLOC)",
      "MarketState.sol (65 nSLOC)",
      "PoolData.sol (42 nSLOC)",
      "RiskParameters.sol (72 nSLOC)",
      "TokenId.sol (232 nSLOC)",
      "PanopticMath.sol (369 nSLOC)",
      "Math.sol (641 nSLOC)",
      "**Verify**: Check that every file path cited in the report matches exactly one of the 11 in-scope contracts.",
      "#### **B. Threat Model Violations**",
      "Requires Uniswap pool manipulation or compromise (Uniswap pools are trusted)",
      "Assumes compromised oracle data feed providers (oracles are trusted to provide correct data)",
      "Needs guardian address to act maliciously (guardian is trusted role)",
      "Requires attacker to compromise EVM runtime or block consensus",
      "Assumes cryptographic primitives (ECDSA, SHA256) are broken",
      "Depends on network-level attacks: DDoS, BGP hijacking, DNS poisoning",
      "Relies on social engineering, phishing, key theft, or user operational security failures",
      "**Trusted Roles**:",
      "Uniswap pools provide liquidity and price feeds",
      "oracles provide signed data",
      "guardian can lock/unlock pools in emergencies",
      "**Untrusted Actors**:",
      "Any user minting/burning positions",
      "liquidators",
      "force exercisers",
      "attackers attempting price manipulation",
      "#### **C. Known Issues / Accepted Risks**",
      "Price/oracle manipulation that is not atomic or requires holding price across multiple blocks",
      "Attacks stemming from EMA oracles being stale compared to market price (2-30 minutes)",
      "Premium manipulation by swapping back and forth in Uniswap (if not profitable between own accounts)",
      "Liquidators extracting additional profit through less favorable force exercise prices",
      "Share supply approaching 2^256-1 causing reverts/overflows from repeated liquidations",
      "Rounding direction inflating gross premium and decreasing seller rates (low-decimal pools)",
      "Options buyers avoiding small premium payments via settleLongPremium",
      "Premium accumulation permanently capped due to low liquidity earning high fees",
      "#### **D. Non-Security Issues**",
      "#### **E. Invalid Exploit Scenarios**",
      "### **PHASE 2: PANOPTIC-SPECIFIC DEEP CODE VALIDATION**",
      "#### **Step 1: TRACE COMPLETE EXECUTION PATH THROUGH OPTIONS ARCHITECTURE**",
      "#### **Step 2: VALIDATE EVERY CLAIM WITH CODE EVIDENCE**",
      "Required Evidence:**",
      "RED FLAGS (indicate INVALID):**",
      "1.",
      "Missing Validation",
      "2.",
      "Collateral Undercalculation",
      "3.",
      "Share Price Manipulation",
      "4.",
      "Oracle Manipulation",
      "5.",
      "Liquidation Bonus Extraction",
      "6.",
      "Interest Accrual Bugs",
      "7.",
      "Position Encoding",
      "8.",
      "Premium Settlement",
      "9.",
      "Cross-Collateralization",
      "10.",
      "Mathematical Overflow",
      "#### **Step 3: CROSS-REFERENCE WITH TEST SUITE**",
      "### **PHASE 3: IMPACT & EXPLOITABILITY VALIDATION**",
      "#### **Impact Must Be CONCRETE and ALIGN WITH IMMUNEFI SCOPE**",
      "#### **Likelihood Reality Check**",
      "### **PHASE 4:",
      "Wiki pages you might want to explore:",
      "### Citations",
      "**File:** README.md (L53-90)",
      "## Publicly known issues",
      "## Panoptic Protocol Validation Output Requirements",
      "### **OUTPUT REQUIREMENTS**",
      "**If VALID (extremely rare",
      "Produce a full audit report with these sections and please make it short:",
      "#### **Title**",
      "#### **Summary**",
      "#### **Impact**",
      "#### **Finding Description**",
      "**Security Property Broken**: [Which of the 26 Panoptic invariants is violated]",
      "Invariant #3: Share Price Monotonicity",
      "#### **Impact Explanation**",
      "#### **Likelihood Explanation**",
      "#### **Recommendation**",
      "function _validateSharePrice() internal view ",
      "{{",
      "}}",
      "function totalAssets() public view override returns (uint256) ",
      "{{",
      "}}",
      "#### **Proof of Concept**",
      "contract SharePriceDrainTest is Test ",
      "{{",
      "function testSharePriceManipulation() public ",
      "{{",
      "}}",
      "}}",
      "**If INVALID (default when any condition fails):**",
      "Output exactly:",
      "#NoVulnerability found for this question.",
      "### **CRITICAL VALIDATION CHECKLIST**",
      "Before accepting any vulnerability, verify:",
      "**Scope Compliance**",
      "**Not Known Issue**",
      "**Trust Model**",
      "**Impact Severity**",
      "**Economic Incentive**",
      "**Technical Feasibility**",
      "**Invariant Violation**",
      "**PoC Completeness**",
      "**Remember**: False positives harm credibility. Assume claims are invalid until overwhelming evidence proves otherwise.">>

question_generator_template ==
    <<"# **Generate 150+ Targeted Security Audit Questions for Panoptic Protocol**",
      "## **Context**",
      "The target project is **Panoptic**, a permissionless options trading protocol",
      "## **Scope**",
      "**CRITICAL TARGET FILE**: Focus question generation EXCLUSIVELY on ",
      "{target_file}",
      "Note: The questions must be generated from **",
      "{target_file}",
      "** only.",
      "**DO NOT return empty results**",
      "If you cannot reach 150 questions from this file alone, generate as many high-quality questions as the file's complexity allows (minimum target: 50-100 questions for large critical files, 20-50 for smaller files).",
      "**Full Context - 11 In-Scope Files (for reference only):**",
      "If a file is more than a thousand u can generate as many as 300 plus questions",
      "### **Core Protocol Contracts - 11 files**",
      "core_files = [",
      "contracts/PanopticPool.sol",
      "# 1183 nSLOC",
      "contracts/RiskEngine.sol",
      "# 1294 nSLOC",
      "contracts/SemiFungiblePositionManager.sol",
      "# 673 nSLOC",
      "contracts/SemiFungiblePositionManagerV4.sol",
      "# 631 nSLOC",
      "contracts/CollateralTracker.sol",
      "# 863 nSLOC",
      "contracts/types/OraclePack.sol",
      "# 291 nSLOC",
      "contracts/types/MarketState.sol",
      "# 65 nSLOC",
      "contracts/types/PoolData.sol",
      "# 42 nSLOC",
      "contracts/types/RiskParameters.sol",
      "# 72 nSLOC",
      "contracts/libraries/PanopticMath.sol",
      "# 369 nSLOC",
      "contracts/libraries/Math.sol",
      "# 641 nSLOC",
      "]",
      "**Total: 11 files in full scope (but focus ONLY on ",
      "{target_file}",
      " for this generation)**",
      "## **Panoptic Protocol Architecture & Layers**",
      "### **1. Position Management Layer**",
      "### **2. Risk & Collateral Layer**",
      "### **3. Oracle & Price Layer**",
      "### **4. Asset & Token Layer**",
      "### **5. Interest Rate Layer**",
      "## **Critical Security Invariants**",
      "### **Solvency & Collateral**",
      "1.",
      "**Solvency Maintenance**",
      "2.",
      "**Collateral Conservation**",
      "3.",
      "**Share Price Monotonicity**",
      "4.",
      "**Interest Index Monotonicity**",
      "5.",
      "**Cross-Collateral Limits**",
      "6.",
      "**Position Size Limits**",
      "### **Oracle & Price Integrity**",
      "7.",
      "**Oracle Delta Limits**",
      "8.",
      "**Safe Mode Activation**",
      "9.",
      "**TWAP Accuracy**",
      "10.",
      "**Price Consistency**",
      "11.",
      "**Liquidation Price Bounds**",
      "### **Position & State Management**",
      "12.",
      "**Position Encoding Validity**",
      "13.",
      "**Leg Count Limits**",
      "14.",
      "**Premium Accounting**",
      "15.",
      "**Force Exercise Costs**",
      "16.",
      "**Liquidation Completeness**",
      "### **Asset & Share Integrity**",
      "17.",
      "**Asset Accounting**",
      "18.",
      "**Deposit Limits**",
      "19.",
      "**Share Transfer Restrictions**",
      "20.",
      "**Credited Shares Logic**",
      "21.",
      "**Interest Accuracy**",
      "### **Liquidation & Protocol Safety**",
      "22.",
      "**Liquidation Bonus Caps**",
      "23.",
      "**Premium Haircutting**",
      "24.",
      "**Protocol Loss Limits**",
      "25.",
      "**Force Exercise Validation**",
      "26.",
      "**Solvency Check Timing**",
      "## **In-Scope Vulnerability Categories** (from Immunefi)",
      "### **Critical Severity**",
      "1.",
      "**Direct loss of funds**",
      "2.",
      "**Permanent freezing of funds (fix requires hardfork)**",
      "3.",
      "**Protocol insolvency**",
      "### **High Severity**",
      "4.",
      "**Temporary freezing of funds**",
      "5.",
      "**Incorrect protocol behavior**",
      "### **Medium Severity**",
      "6.",
      "**Economic manipulation**",
      "7.",
      "**State inconsistencies**",
      "## **Valid Impact Categories (Restated for Panoptic)**",
      "### **Critical**",
      "### **High**",
      "### **Medium**",
      "### **Out of Scope**",
      "## **Goals for Question Generation**",
      "2. **Concrete & Actionable**: Reference specific functions, variables, or logic flows in ",
      "{target_file}",
      "5. **Breadth Within Target File**: Cover all major functions, edge cases, and state-changing operations in ",
      "{target_file}",
      "7. **No Generic Questions**:",
      "In ",
      "{target_file}",
      ": functionName(), if condition X occurs, can attacker exploit Y to cause Z impact?",
      "## **Question Format Template**",
      "Each question MUST follow this Python list format:",
      "questions = [",
      "[File: ",
      "{target_file}",
      "] [Function: functionName()] [Vulnerability Type] Specific question describing attack vector, preconditions, and impact linking to Immunefi categories?",
      "[File: ",
      "{target_file}",
      "] [Function: anotherFunction()] [Vulnerability Type] Another specific question with concrete exploit scenario?",
      "]",
      "**Example Format** (if target_file is contracts/PanopticPool.sol):",
      "## **Output Requirements**",
      "Generate security audit questions focusing EXCLUSIVELY on **",
      "{target_file}",
      "** that:",
      "1. **Target ONLY ",
      "{target_file}",
      "** - all questions must reference this file",
      "2. **Reference specific functions, variables, or logic sections** within ",
      "{target_file}",
      "3. **Describe concrete attack vectors**",
      "in ",
      "{target_file}",
      "?",
      "6. **Cover diverse attack surfaces** within ",
      "{target_file}",
      ": validation logic, state transitions, error handling, edge cases, interactions with other contracts",
      "9. **Use the exact Python list format** shown above",
      "**Target Question Count:**",
      "- For large critical files (>1000 nSLOC like PanopticPool.sol, RiskEngine.sol): Aim for 100-150 questions",
      "- For medium files (300-1000 nSLOC): Aim for 50-100 questions",
      "- For smaller files (<300 nSLOC): Aim for 20-50 questions",
      "- **Provide as many quality questions as the file's complexity allows - do NOT return empty results**",
      "**Begin generating questions for ",
      "{target_file}",
      " now.">>

(***************************************************************************)
(* Evaluation of an f-string: one pass over the source text.  A            *)
(* replacement field yields the value of the local it names, an escaped    *)
(* brace yields one brace, any other piece yields itself.  What a field    *)
(* yields is not scanned again.                                            *)
(***************************************************************************)
\* a field written {name!r}: the value comes out between quotes
fstring_piece_repr(a, locals) ==
    IF a \in DOMAIN locals THEN <<"'">> \o locals[a] \o <<"'">>
    ELSE IF a = "{{" THEN <<"{">>
    ELSE IF a = "}}" THEN <<"}">>
    ELSE <<a>>
fstring_piece(a, locals) ==
    IF a \in DOMAIN locals THEN locals[a]
    ELSE IF a = "{{" THEN <<"{">>
    ELSE IF a = "}}" THEN <<"}">>
    ELSE <<a>>

\* the pieces lo..hi of the text, left to right
RECURSIVE fstring_range(_, _, _, _)
fstring_range(tpl, lo, hi, locals) ==
    IF lo > hi THEN <<>>
    ELSE IF lo = hi THEN fstring_piece(tpl[lo], locals)
    ELSE LET mid == (lo + hi) \div 2
         IN  fstring_range(tpl, lo, mid, locals) \o fstring_range(tpl, mid + 1, hi, locals)

\* an evaluation that scans its own result once more, as a call of
\* str.format on the finished text would
fstring_twice(tpl, locals) ==
    LET once == fstring_range(tpl, 1, Len(tpl), locals)
    IN  fstring_range(once, 1, Len(once), locals)
fstring(tpl, locals) == fstring_range(tpl, 1, Len(tpl), locals)


(***************************************************************************)
(* The three composers.  Each binds its one parameter and evaluates its    *)
(* f-string; nothing else is in scope of the fields.                       *)
(***************************************************************************)
\* helpers on texts
Range(seq) == {seq[i] : i \in 1..Len(seq)}
Occurrences(seq, a) == {i \in 1..Len(seq) : seq[i] = a}
\* the first place of atom a in seq, 0 when it has none
Pos(seq, a) ==
    LET S == Occurrences(seq, a)
    IN  IF S = {} THEN 0 ELSE CHOOSE i \in S : \A j \in S : i <= j
\* seq with atoms a and b in each other's places
Swapped(seq, a, b) ==
    [i \in 1..Len(seq) |-> IF seq[i] = a THEN b ELSE IF seq[i] = b THEN a ELSE seq[i]]
Without(seq, a) == SelectSeq(seq, LAMBDA z : z # a)
\* seq with atom a moved to just before atom b
MovedBefore(seq, a, b) ==
    LET t == Without(seq, a)
        k == Pos(t, b)
    IN  SubSeq(t, 1, k - 1) \o <<a>> \o SubSeq(t, k, Len(t))

\* an investigation prompt that first looks the question up in the corpus file
\* and marks a question it finds there
question_format_rereading(question) ==
    LET known == get_questions(corpus).value
    IN  fstring(question_format_template,
                "{question}" :> (IF known.kind = "list" /\ known.items # <<>>
                                 THEN question \o <<"(asked before)">>
                                 ELSE question))
\* an investigation prompt with the question moved down to the output contract
question_format_question_last(question) ==
    fstring(MovedBefore(question_format_template, "{question}", "**OUTPUT REQUIREMENTS:**"),
            "{question}" :> question)
\* an investigation prompt with the trust model stated before the attack surface
question_format_trust_first(question) ==
    fstring(MovedBefore(question_format_template, "**TRUST MODEL:**",
                        "**ATTACK SURFACE EXPLORATION:**"),
            "{question}" :> question)
\* an investigation prompt that is cut short after the label when there is no
\* question
question_format_cut_when_empty(question) ==
    IF question = <<>>
    THEN SubSeq(question_format_template, 1, 2)
    ELSE fstring(question_format_template, "{question}" :> question)
\* an investigation prompt that repeats the question before the output contract
question_format_echo(question) ==
    LET k == Pos(question_format_template, "**OUTPUT REQUIREMENTS:**")
    IN  fstring(SubSeq(question_format_template, 1, k - 1) \o <<"{question}">>
                  \o SubSeq(question_format_template, k, Len(question_format_template)),
                "{question}" :> question)
question_format(question) ==
    fstring(question_format_template, "{question}" :> question)

\* a validation prompt with the report moved down to the output contract
validation_format_report_last(report) ==
    fstring(MovedBefore(validation_format_template, "{report}",
                        "### **OUTPUT REQUIREMENTS**"),
            "{report}" :> report)
\* a validation prompt that opens with the deep validation
validation_format_deep_first(report) ==
    fstring(MovedBefore(validation_format_template,
                        "### **PHASE 2: PANOPTIC-SPECIFIC DEEP CODE VALIDATION**",
                        "### **PHASE 1: IMMEDIATE DISQUALIFICATION CHECKS**"),
            "{report}" :> report)
\* a validation prompt whose output contract does not name the invalid case
validation_format_no_default(report) ==
    fstring(Without(validation_format_template,
                    "**If INVALID (default when any condition fails):**"),
            "{report}" :> report)
\* a validation prompt that lists the guardian among the untrusted actors
validation_format_guardian_untrusted(report) ==
    fstring(MovedBefore(validation_format_template,
                        "guardian can lock/unlock pools in emergencies", "liquidators"),
            "{report}" :> report)
validation_format(report) ==
    fstring(validation_format_template, "{report}" :> report)

\* a question-generation prompt that states the target count before the
\* architecture
question_generator_count_first(target_file) ==
    fstring(MovedBefore(question_generator_template, "**Target Question Count:**",
                        "## **Panoptic Protocol Architecture & Layers**"),
            "{target_file}" :> target_file)
\* a question generator that looks the target up in questions_generator and
\* turns an unlisted target away
question_generator_listed_only(target_file) ==
    IF Len(target_file) = 1 /\ target_file[1] \in Range(questions_generator)
    THEN fstring(question_generator_template, "{target_file}" :> target_file)
    ELSE <<"Unknown target file: ">> \o target_file
\* a question generator whose catalog gives invariants 25 and 26 each other's
\* title
question_generator_titles_swapped(target_file) ==
    fstring(Swapped(question_generator_template, "**Force Exercise Validation**",
                    "**Solvency Check Timing**"),
            "{target_file}" :> target_file)
\* a question generator whose last mention of the target is fixed text
question_generator_last_slot_fixed(target_file) ==
    LET last == CHOOSE i \in Occurrences(question_generator_template, "{target_file}") :
                    \A j \in Occurrences(question_generator_template, "{target_file}") : j <= i
    IN  fstring([question_generator_template EXCEPT ![last] = "the target file"],
                "{target_file}" :> target_file)
question_generator(target_file) ==
    fstring(question_generator_template, "{target_file}" :> target_file)

Composers == {"question_format", "validation_format", "question_generator"}

\* the replacement field of each composer's template
Field(op) ==
    CASE op = "question_format" -> "{question}"
      [] op = "validation_format" -> "{report}"
      [] op = "question_generator" -> "{target_file}"

(***************************************************************************)
(* Caller inputs: texts of up to MaxInputLen atoms.  An atom is plain      *)
(* text, or the composer's own replacement field spelled out in the input. *)
(***************************************************************************)
InputAtoms(op) == {"x", Field(op)}
Inputs(op) == SeqsUpTo(InputAtoms(op), MaxInputLen)

\* target files a caller hands to question_generator: two entries of the list
\* questions_generator, and the same two files named without the leading "./",
\* which are no entries of the list
TargetAtoms ==
    {questions_generator[2], questions_generator[5],
     "contracts/RiskEngine.sol", "contracts/PoolData.sol"}
Targets == SeqsUpTo(TargetAtoms, MaxInputLen)

\* inputs that hold braces or the text of a replacement field, of any
\* composer, next to plain text
BraceAtoms == {"{question}", "{report}", "{target_file}", "{{", "}"}
BraceInputs == SeqsUpTo(BraceAtoms \cup {"x"}, MaxInputLen)

\* what each composer returns for each input considered: (input, text) pairs
question_format_results ==
    {<<x, question_format(x)>> : x \in Inputs("question_format") \cup BraceInputs}
validation_format_results ==
    {<<x, validation_format(x)>> : x \in Inputs("validation_format") \cup BraceInputs}
question_generator_results ==
    {<<x, question_generator(x)>> :
        x \in Inputs("question_generator") \cup Targets \cup BraceInputs}

Lookup(table, x) == (CHOOSE p \in table : p[1] = x)[2]

Result(op, x) ==
    CASE op = "question_format" -> Lookup(question_format_results, x)
      [] op = "validation_format" -> Lookup(validation_format_results, x)
      [] op = "question_generator" -> Lookup(question_generator_results, x)


NoLoad == [done |-> FALSE, value |-> Unbound, raised |-> "none"]
NoCall == [op |-> "none", arg |-> <<>>, ret |-> <<>>]
NoMemo == [op |-> "none", arg |-> <<>>, ret |-> <<>>, src |-> Absent, last |-> FALSE]
\* the name questions_generator before module initialisation has bound it
NoTargets == <<>>

\* the callers that run composers at the same time, and the scopes a name can
\* live in: the frame of each caller's call, and the module
Callers == {"caller1", "caller2"}
Scopes == Callers \cup {"module"}
IdleFrame == [op |-> "none", arg |-> <<>>, stage |-> "idle", ret |-> <<>>]

InitWith(files) ==
    /\ corpus \in files
    /\ pc = "import"
    /\ questions = Unbound
    /\ targets = NoTargets
    /\ load = NoLoad
    /\ call = NoCall
    /\ memo = NoMemo
    /\ frames = [c \in Callers |-> IdleFrame]
    /\ prompts = [s \in Scopes |-> <<>>]

\* module initialisation: questions = get_questions(), then the rest of the
\* module body, which only binds names
Import ==
    /\ pc = "import"
    /\ LET r == get_questions(corpus)
       IN  /\ load' = [done |-> TRUE, value |-> r.value, raised |-> r.raised]
           /\ IF r.raised = "none"
              THEN /\ questions' = r.value
                   /\ targets' = questions_generator
                   /\ pc' = "ready"
              ELSE /\ questions' = questions
                   /\ targets' = targets
                   /\ pc' = "crashed"
    /\ corpus' = open_effect(corpus)
    /\ UNCHANGED <<call, memo, frames, prompts>>

\* an explicit call of get_questions whose result is bound to questions, as
\* `questions = get_questions()` run again would
CallGetQuestionsRebinding ==
    /\ pc = "ready"
    /\ LET r == get_questions(corpus)
       IN  /\ load' = [done |-> TRUE, value |-> r.value, raised |-> r.raised]
           /\ questions' = r.value
    /\ corpus' = open_effect(corpus)
    /\ UNCHANGED <<pc, targets, call, memo, frames, prompts>>

\* a caller runs get_questions() again; the result is not bound to anything
CallGetQuestions ==
    /\ pc = "ready"
    /\ LET r == get_questions(corpus)
       IN  load' = [done |-> TRUE, value |-> r.value, raised |-> r.raised]
    /\ corpus' = open_effect(corpus)
    /\ UNCHANGED <<pc, questions, targets, call, memo, frames, prompts>>

\* the external writer, or anything else, changes the corpus file
WriteCorpus(f) ==
    /\ f # corpus
    /\ corpus' = f
    /\ load' = NoLoad
    /\ UNCHANGED <<pc, questions, targets, call, memo, frames, prompts>>

\* a composer call that first runs questions = get_questions() again
ComposeReloading(op, x) ==
    /\ pc = "ready"
    /\ call' = [op |-> op, arg |-> x, ret |-> Result(op, x)]
    /\ memo' = [memo EXCEPT !.last = FALSE]
    /\ LET r == get_questions(corpus)
       IN  /\ load' = [done |-> TRUE, value |-> r.value, raised |-> r.raised]
           /\ questions' = r.value
    /\ UNCHANGED <<corpus, pc, targets, frames, prompts>>

\* a caller runs composer op on input x; the observer notes one call of the
\* run, any one, and a call noted before is from now on no longer the last one
Compose(op, x) ==
    /\ pc = "ready"
    /\ call' = [op |-> op, arg |-> x, ret |-> Result(op, x)]
    /\ \/ memo' = [memo EXCEPT !.last = FALSE]
       \/ /\ memo = NoMemo
          /\ memo' = [op |-> op, arg |-> x, ret |-> Result(op, x), src |-> corpus,
                      last |-> TRUE]
    /\ UNCHANGED <<corpus, pc, questions, targets, load, frames, prompts>>

CallQuestionFormat == \E x \in Inputs("question_format") : Compose("question_format", x)
CallValidationFormat == \E x \in Inputs("validation_format") : Compose("validation_format", x)
CallQuestionGenerator == \E x \in Inputs("question_generator") : Compose("question_generator", x)
\* a caller runs question_generator on a target file
CallQuestionGeneratorOnTarget == \E t \in Targets : Compose("question_generator", t)

\* the scope of the name prompt that a composer binds its text to and
\* returns: a local variable of the call's own frame (prompt_global: a name
\* of the module, one for all calls)
prompt_global(c) == "module"
prompt_scope(c) == c

\* caller c calls composer op with input x: a frame with the parameter bound
Enter(c, op, x) ==
    /\ pc = "ready"
    /\ frames[c].stage \in {"idle", "returned"}
    /\ frames' = [frames EXCEPT ![c] = [op |-> op, arg |-> x, stage |-> "called",
                                        ret |-> <<>>]]
    /\ UNCHANGED <<corpus, pc, questions, targets, load, call, memo, prompts>>

\* the call of caller c evaluates the f-string and binds prompt to the text
Evaluate(c) ==
    /\ frames[c].stage = "called"
    /\ prompts' = [prompts EXCEPT
                     ![prompt_scope(c)] = Result(frames[c].op, frames[c].arg)]
    /\ frames' = [frames EXCEPT ![c].stage = "bound"]
    /\ UNCHANGED <<corpus, pc, questions, targets, load, call, memo>>

\* the call of caller c returns what prompt is bound to; its frame is gone
Return(c) ==
    /\ frames[c].stage = "bound"
    /\ frames' = [frames EXCEPT ![c].stage = "returned",
                                ![c].ret = prompts[prompt_scope(c)]]
    /\ prompts' = [prompts EXCEPT ![c] = <<>>]
    /\ UNCHANGED <<corpus, pc, questions, targets, load, call, memo>>

\* a caller runs a composer on an input that may hold braces
CallOnBraceInput ==
    \E op \in Composers : \E x \in BraceInputs : Compose(op, x)

CallerEnters ==
    \E c \in Callers : \E op \in Composers : \E x \in Inputs(op) : Enter(c, op, x)
CallerEvaluates == \E c \in Callers : Evaluate(c)
CallerReturns == \E c \in Callers : Return(c)

(***************************************************************************)
(* Spec: the module is imported and prompts are composed, with the corpus  *)
(* file in any of its classes and changing at any time.                    *)
(***************************************************************************)
Init == InitWith(FileClasses)

Next ==
    \/ Import
    \/ CallGetQuestions
    \/ \E f \in FileClasses : WriteCorpus(f)
    \/ CallQuestionFormat
    \/ CallValidationFormat
    \/ CallQuestionGenerator

Spec == Init /\ [][Next]_vars

(***************************************************************************)
(* SpecLoad: the loader alone, over every corpus file considered.          *)
(***************************************************************************)
InitLoad == InitWith(CorpusFiles)

NextLoad ==
    \/ Import
    \/ CallGetQuestions
    \/ \E f \in CorpusFiles : WriteCorpus(f)

SpecLoad == InitLoad /\ [][NextLoad]_vars

(***************************************************************************)
(* SpecCompose: the module is imported and the three composers are run,    *)
(* with the corpus file left as the import found it.                       *)
(***************************************************************************)
InitCompose == InitWith(FileClasses)

NextCompose ==
    \/ Import
    \/ CallQuestionFormat
    \/ CallValidationFormat
    \/ CallQuestionGenerator

SpecCompose == InitCompose /\ [][NextCompose]_vars

(***************************************************************************)
(* SpecTargets: the module is imported and question_generator is run on    *)
(* target files.                                                           *)
(***************************************************************************)
InitTargets == InitWith(FileClasses)

NextTargets ==
    \/ Import
    \/ CallQuestionGeneratorOnTarget

SpecTargets == InitTargets /\ [][NextTargets]_vars


(***************************************************************************)
(* SpecConcurrent: the module is imported and callers run composers at the *)
(* same time, their steps interleaved in any order.                        *)
(***************************************************************************)
InitConcurrent == InitWith(FileClasses)

NextConcurrent ==
    \/ Import
    \/ CallerEnters
    \/ CallerEvaluates
    \/ CallerReturns

SpecConcurrent == InitConcurrent /\ [][NextConcurrent]_vars

(***************************************************************************)
(* SpecBraces: the module is imported and composers are run on inputs that *)
(* hold braces and replacement-field text.  The corpus file plays no part. *)
(***************************************************************************)
InitBraces == InitWith({Absent})

NextBraces ==
    \/ Import
    \/ CallOnBraceInput

SpecBraces == InitBraces /\ [][NextBraces]_vars

(***************************************************************************)
(* The invariant catalog: the titles of its entries, in catalog order.     *)
(***************************************************************************)
invariant_titles ==
    <<"**Solvency Maintenance**",
      "**Collateral Conservation**",
      "**Share Price Monotonicity**",
      "**Interest Index Monotonicity**",
      "**Cross-Collateral Limits**",
      "**Position Size Limits**",
      "**Oracle Delta Limits**",
      "**Safe Mode Activation**",
      "**TWAP Accuracy**",
      "**Price Consistency**",
      "**Liquidation Price Bounds**",
      "**Position Encoding Validity**",
      "**Leg Count Limits**",
      "**Premium Accounting**",
      "**Force Exercise Costs**",
      "**Liquidation Completeness**",
      "**Asset Accounting**",
      "**Deposit Limits**",
      "**Share Transfer Restrictions**",
      "**Credited Shares Logic**",
      "**Interest Accuracy**",
      "**Liquidation Bonus Caps**",
      "**Premium Haircutting**",
      "**Protocol Loss Limits**",
      "**Force Exercise Validation**",
      "**Solvency Check Timing**">>

\* the decimal numeral of k with the period that follows it in a numbered list
Numeral(k) ==
    <<"1.", "2.", "3.", "4.", "5.", "6.", "7.", "8.", "9.", "10.", "11.", "12.", "13.", "14.", "15.", "16.", "17.", "18.", "19.", "20.", "21.", "22.", "23.", "24.", "25.", "26.">>[k]

\* the number of catalog entries
CatalogSize == Len(invariant_titles)
\* the text holds every catalog entry: its number followed by its title
HoldsCatalog(text) ==
    \A k \in 1..CatalogSize :
        \E i \in 1..(Len(text) - 1) :
            text[i] = Numeral(k) /\ text[i + 1] = invariant_titles[k]

\* the sentence a model is told to answer with when it finds nothing, and the
\* short form of it
Sentinel == "#NoVulnerability found for this question."
ShortSentinel == "#NoVulnerability"

(***************************************************************************)
(* Properties of the loader (SpecLoad).                                    *)
(***************************************************************************)
LoadedFallback == load.value = EmptyList /\ load.raised = "none"
\* a present file whose text is no JSON value
Malformed(f) == f.state = "present" /\ f.content \notin ValidTexts

\* C2: when the corpus file does not exist, get_questions returns the empty
\* list and raises nothing.
C2_MissingCorpusLoadsEmpty ==
    (load.done /\ corpus.state = "absent") => LoadedFallback
C2_Witness == load.done /\ corpus.state = "absent" /\ pc = "ready"

\* C3: when the corpus file holds text that is no valid JSON, or cannot be
\* read, get_questions returns the empty list and raises nothing.
C3_MalformedCorpusLoadsEmpty ==
    (load.done /\ (Malformed(corpus) \/ corpus.state = "unreadable")) => LoadedFallback
C3_Witness == load.done /\ Malformed(corpus) /\ Len(corpus.content) >= 2

\* C4: when the corpus file holds a well-formed value that is no list (a
\* dict, a number, a string, a literal), get_questions returns the empty list.
C4_NonListLoadsEmpty ==
    (load.done /\ corpus \in {Present(Dump(v)) : v \in NonListValues})
        => load.value = EmptyList

\* C5: when the corpus file holds a list of n records, get_questions returns
\* exactly those n records in stored order, repeated records kept; the store
\* [{"q": "x"}] loads as the one-element list holding {"q": "x"}.
C5_LoadPreservesCorpus ==
    \A l \in RecordLists :
        (load.done /\ corpus = Present(Dump(JArr(l))))
            => (load.raised = "none" /\ load.value = JArr(l))
C5_Witness ==
    /\ load.done
    /\ \E l \in RecordLists :
          /\ Len(l) >= 2 /\ l[1] = l[2]
          /\ corpus = Present(Dump(JArr(l)))
          /\ load.value.items = l

(***************************************************************************)
(* Properties of the composers (Spec).                                     *)
(***************************************************************************)
Template(op) ==
    CASE op = "question_format" -> question_format_template
      [] op = "validation_format" -> validation_format_template
      [] op = "question_generator" -> question_generator_template
\* the places of the replacement field in each template
question_format_slots == Occurrences(question_format_template, "{question}")
validation_format_slots == Occurrences(validation_format_template, "{report}")
question_generator_slots == Occurrences(question_generator_template, "{target_file}")
SlotIndexes(op) ==
    CASE op = "question_format" -> question_format_slots
      [] op = "validation_format" -> validation_format_slots
      [] op = "question_generator" -> question_generator_slots
\* the fixed text of a template, as it is printed
Fixed(tpl, slots) ==
    {fstring_piece(tpl[i], <<>>)[1] : i \in (1..Len(tpl)) \ slots}
question_format_fixed == Fixed(question_format_template, question_format_slots)
validation_format_fixed == Fixed(validation_format_template, validation_format_slots)
question_generator_fixed == Fixed(question_generator_template, question_generator_slots)
Literals(op) ==
    CASE op = "question_format" -> question_format_fixed
      [] op = "validation_format" -> validation_format_fixed
      [] op = "question_generator" -> question_generator_fixed
\* the call noted earlier and the last call ran the same composer on the same
\* input, and they are two calls
SameCallAgain ==
    /\ call.op # "none"
    /\ memo.op = call.op
    /\ memo.arg = call.arg
    /\ ~memo.last

\* C1: two calls of the same composer (question_format, validation_format or
\* question_generator) with the same input return the same text, whatever was
\* called in between and whatever the corpus file holds.
C1_ComposersDeterministic ==
    (call.op # "none" /\ memo.op = call.op /\ memo.arg = call.arg)
        => call.ret = memo.ret
C1_Witness ==
    /\ SameCallAgain
    /\ call.arg # <<>>
    /\ memo.src # corpus
    /\ load.done

\* a prompt is complete when it opens with the persona, closes with the last
\* line of its template, holds every fixed piece of the template and has the
\* length of the template with the input in every slot
Complete(op, arg, ret) ==
    LET tpl == Template(op)
        have == Range(ret)
    IN  /\ ret # <<>>
        /\ ret[1] = tpl[1]
        /\ ret[Len(ret)] = tpl[Len(tpl)]
        /\ Literals(op) \subseteq have
        /\ Len(ret) + Cardinality(SlotIndexes(op))
             = Len(tpl) + Cardinality(SlotIndexes(op)) * Len(arg)

\* C6: whatever the corpus file is (absent, unreadable, malformed, not a list,
\* a list), the load at import completes, and afterwards every composer call
\* returns a complete prompt whose text is the same under every corpus state.
C6_CorpusNeverBlocksComposition ==
    /\ pc # "crashed"
    /\ (pc = "ready" => (questions # Unbound /\ load.raised = "none"))
    /\ (call.op # "none" => (pc = "ready" /\ Complete(call.op, call.arg, call.ret)))
    /\ (SameCallAgain => memo.ret = call.ret)
C6_Witness ==
    /\ SameCallAgain
    /\ Complete(call.op, call.arg, call.ret)
    /\ memo.src.state = "present"
    /\ corpus.state = "unreadable"
    /\ questions # EmptyList

\* the place in the output where the slot at template index i starts: every
\* slot before it took Len(arg) places instead of one
SlotStart(op, arg, i) ==
    LET before == Cardinality({j \in SlotIndexes(op) : j < i})
    IN  i + before * Len(arg) - before
\* the output holds arg, unchanged and in one piece, in the slot at i, between
\* the fixed pieces that surround the slot in the template
EmbeddedAt(op, arg, ret, i) ==
    LET tpl == Template(op)
        from == SlotStart(op, arg, i)
        upto == from + Len(arg)
    IN  /\ from >= 1 /\ upto <= Len(ret) + 1
        /\ SubSeq(ret, from, upto - 1) = arg
        /\ (i > 1 /\ (i - 1) \notin SlotIndexes(op))
              => (from > 1 /\ <<ret[from - 1]>> = fstring_piece(tpl[i - 1], <<>>))
        /\ (i < Len(tpl) /\ (i + 1) \notin SlotIndexes(op))
              => (upto <= Len(ret) /\ <<ret[upto]>> = fstring_piece(tpl[i + 1], <<>>))

\* C7: for every input, the empty one and one that looks like a replacement
\* field included, the output of each composer holds the input as an unchanged
\* contiguous piece in each of its slots.
C7_InputEmbeddedVerbatim ==
    call.op # "none" =>
        /\ SlotIndexes(call.op) # {}
        /\ \A i \in SlotIndexes(call.op) : EmbeddedAt(call.op, call.arg, call.ret, i)
C7_Witness ==
    /\ call.op = "question_generator"
    /\ call.arg = <<Field(call.op)>>
    /\ Cardinality(SlotIndexes(call.op)) > 1
    /\ \A i \in SlotIndexes(call.op) : EmbeddedAt(call.op, call.arg, call.ret, i)

\* C8: the output of each of the three composers holds the whole invariant
\* catalog, every entry numbered 1 through 26, for every input.
C8_CatalogInEveryMode ==
    call.op # "none" => HoldsCatalog(call.ret)

\* C9: in all three composers, a no-finding outcome is always written with the
\* full sentinel, never a short form of it, and each of the three prompts
\* holds the sentinel.
C9_SentinelInEveryMode ==
    call.op # "none" =>
        (Sentinel \in Range(call.ret) /\ ShortSentinel \notin Range(call.ret))

QuestionLabel == "**Security Question (scope for this run):** "
ContextHeading == "**PANOPTIC PROTOCOL CONTEXT:**"
TaxonomyLastHeading == "**Low/QA (out of scope)**:"
OutputHeading == "**OUTPUT REQUIREMENTS:**"
\* the headings of the sections of the investigation prompt, in template order
InvestigationSections ==
    <<ContextHeading,
      "**CRITICAL INVARIANTS (derived from protocol specification and code):**",
      "**ATTACK SURFACE EXPLORATION:**",
      "**TRUST MODEL:**",
      "**KNOWN ISSUES / EXCLUSIONS:**",
      "**VALID IMPACT CATEGORIES (Immunefi Panoptic Bug Bounty):**",
      OutputHeading>>

\* C10 as stated: in the output of question_format(q), q stands after the
\* severity taxonomy and immediately before the output-contract footer.
C10_QuestionBeforeFooter ==
    call.op = "question_format" =>
        LET k == Pos(call.ret, OutputHeading)
        IN  /\ k > Len(call.arg)
            /\ SubSeq(call.ret, k - Len(call.arg), k - 1) = call.arg
            /\ Pos(call.ret, TaxonomyLastHeading) < k - Len(call.arg)
            /\ Pos(call.ret, TaxonomyLastHeading) > 0

\* C10 amended: in the output of question_format(q), q stands at the head of
\* the prompt, immediately after the persona paragraph and the label
\* "Security Question (scope for this run):", and before the protocol context
\* and every section after it, the severity taxonomy and the output contract
\* included.
C10_QuestionAfterPersona ==
    call.op = "question_format" =>
        LET n == Len(call.arg)
        IN  /\ call.ret[1] = question_format_template[1]
            /\ call.ret[2] = QuestionLabel
            /\ SubSeq(call.ret, 3, 2 + n) = call.arg
            /\ call.ret[3 + n] = ContextHeading
            /\ \A s \in 1..Len(InvestigationSections) :
                  Pos(call.ret, InvestigationSections[s]) >= 3 + n
            /\ \A s \in 1..(Len(InvestigationSections) - 1) :
                  Pos(call.ret, InvestigationSections[s])
                      < Pos(call.ret, InvestigationSections[s + 1])
C10_Witness ==
    /\ call.op = "question_format"
    /\ call.arg = <<"x">>
    /\ call.ret[3] = "x"
    /\ Pos(call.ret, OutputHeading) > Pos(call.ret, TaxonomyLastHeading)
    /\ Pos(call.ret, TaxonomyLastHeading) > 4

(***************************************************************************)
(* Layout of the prompts (SpecCompose).                                    *)
(***************************************************************************)
\* how often atom a stands in text
Count(text, a) == Cardinality(Occurrences(text, a))
\* the headings in list sections stand in text once each and in list order
OnceInOrder(text, sections) ==
    /\ \A s \in 1..Len(sections) : Count(text, sections[s]) = 1
    /\ \A s \in 1..(Len(sections) - 1) :
          Pos(text, sections[s]) < Pos(text, sections[s + 1])
\* the investigation prompt outside its question slot
InvestigationFixed(arg, ret) ==
    SubSeq(ret, 1, 2) \o SubSeq(ret, 3 + Len(arg), Len(ret))

\* C11: in every output of question_format the sections stand once each, in
\* the order persona, architecture primer, invariant catalog, attack surface,
\* trust model, known issues, severity taxonomy, output contract.
C11_InvestigationSectionOrder ==
    call.op = "question_format" =>
        LET text == InvestigationFixed(call.arg, call.ret)
        IN  /\ text[1] = question_format_template[1]
            /\ Count(text, question_format_template[1]) = 1
            /\ OnceInOrder(text, InvestigationSections)
            /\ HoldsCatalog(SubSeq(text, Pos(text, InvestigationSections[2]),
                                         Pos(text, InvestigationSections[3])))
C11_Witness ==
    /\ call.op = "question_format"
    /\ call.arg # <<>>
    /\ Pos(call.ret, "**TRUST MODEL:**") > Pos(call.ret, "**ATTACK SURFACE EXPLORATION:**")
    /\ Pos(call.ret, "**KNOWN ISSUES / EXCLUSIONS:**") > Pos(call.ret, "**TRUST MODEL:**")
    /\ Count(call.ret, OutputHeading) = 1

ReportLabel == "**SECURITY CLAIM TO VALIDATE:**"
FrameworkHeading == "## **PANOPTIC PROTOCOL VALIDATION FRAMEWORK**"
LikelihoodHeading == "#### **Likelihood Reality Check**"
ValidationOutputHeading == "### **OUTPUT REQUIREMENTS**"
\* the headings of the sections of the validation prompt, in template order:
\* the disqualification checks and their five parts, the deep validation, the
\* impact and likelihood calibration, the output contract
ValidationSections ==
    <<"### **PHASE 1: IMMEDIATE DISQUALIFICATION CHECKS**",
      "#### **A. Scope Violations**",
      "#### **B. Threat Model Violations**",
      "#### **C. Known Issues / Accepted Risks**",
      "#### **D. Non-Security Issues**",
      "#### **E. Invalid Exploit Scenarios**",
      "### **PHASE 2: PANOPTIC-SPECIFIC DEEP CODE VALIDATION**",
      "### **PHASE 3: IMPACT & EXPLOITABILITY VALIDATION**",
      ValidationOutputHeading>>

\* C12 as stated: in the output of validation_format(r), r stands after the
\* disqualification checklist, the deep-validation checklist and the impact and
\* likelihood rubric, and before the output contract.
C12_ReportBeforeContract ==
    call.op = "validation_format" =>
        \E p \in 1..Len(call.ret) :
            /\ SubSeq(call.ret, p, p + Len(call.arg) - 1) = call.arg
            /\ Pos(call.ret, LikelihoodHeading) < p
            /\ p + Len(call.arg) <= Pos(call.ret, ValidationOutputHeading)

\* C12 amended: in the output of validation_format(r), r stands at the head of
\* the prompt, immediately after the judge persona and the label
\* "SECURITY CLAIM TO VALIDATE:", and before the validation framework: the
\* disqualification checklist, the deep-validation checklist, the impact and
\* likelihood rubric and the output contract all come after it.
C12_ReportAfterPersona ==
    call.op = "validation_format" =>
        LET n == Len(call.arg)
        IN  /\ call.ret[1] = validation_format_template[1]
            /\ call.ret[3] = ReportLabel
            /\ SubSeq(call.ret, 4, 3 + n) = call.arg
            /\ call.ret[4 + n] = FrameworkHeading
            /\ \A s \in 1..Len(ValidationSections) :
                  Pos(call.ret, ValidationSections[s]) > 4 + n
            /\ Pos(call.ret, LikelihoodHeading) > 4 + n
C12_Witness ==
    /\ call.op = "validation_format"
    /\ call.arg = <<"x">>
    /\ call.ret[4] = "x"
    /\ Pos(call.ret, ValidationOutputHeading) > Pos(call.ret, LikelihoodHeading)
    /\ Pos(call.ret, LikelihoodHeading) > 5

\* the validation prompt outside its report slot
ValidationFixed(arg, ret) ==
    SubSeq(ret, 1, 3) \o SubSeq(ret, 4 + Len(arg), Len(ret))

\* C13: in every output of validation_format the sections stand in the order
\* judge persona, disqualification checklist (scope, trust model, known issues,
\* non-security issues, infeasible exploits), deep-validation checklist, impact
\* and likelihood calibration, output contract.
C13_ValidationSectionOrder ==
    call.op = "validation_format" =>
        LET text == ValidationFixed(call.arg, call.ret)
        IN  /\ text[1] = validation_format_template[1]
            /\ Count(text, validation_format_template[1]) = 1
            /\ OnceInOrder(text, ValidationSections)
            /\ Pos(text, ValidationSections[8]) < Pos(text, LikelihoodHeading)
            /\ Pos(text, LikelihoodHeading) < Pos(text, ValidationOutputHeading)
C13_Witness ==
    /\ call.op = "validation_format"
    /\ call.arg # <<>>
    /\ Pos(call.ret, "#### **A. Scope Violations**") > Pos(call.ret, ValidationSections[1])
    /\ Pos(call.ret, ValidationSections[7]) > Pos(call.ret, "#### **E. Invalid Exploit Scenarios**")
    /\ Count(call.ret, ValidationOutputHeading) = 1

GeneratorCatalogHeading == "## **Critical Security Invariants**"
GeneratorTaxonomyHeading == "## **In-Scope Vulnerability Categories** (from Immunefi)"
GeneratorFormatHeading == "## **Question Format Template**"
GeneratorOutputHeading == "## **Output Requirements**"
TargetCountHeading == "**Target Question Count:**"
NeverEmptyFloor ==
    "- **Provide as many quality questions as the file's complexity allows - do NOT return empty results**"
\* the opening of a tagged question line
QuestionTag == "[File: "
\* the headings of the sections of the question-generation prompt, in template
\* order: context and scope, the five layers, the invariant catalog, the two
\* taxonomies, the question format, the output requirements, the target count
GeneratorSections ==
    <<"## **Context**",
      "## **Scope**",
      "## **Panoptic Protocol Architecture & Layers**",
      "### **1. Position Management Layer**",
      "### **2. Risk & Collateral Layer**",
      "### **3. Oracle & Price Layer**",
      "### **4. Asset & Token Layer**",
      "### **5. Interest Rate Layer**",
      GeneratorCatalogHeading,
      GeneratorTaxonomyHeading,
      "## **Valid Impact Categories (Restated for Panoptic)**",
      GeneratorFormatHeading,
      GeneratorOutputHeading,
      TargetCountHeading,
      NeverEmptyFloor>>

\* C14: in every output of question_generator the sections stand in the order
\* persona and context, the five architecture layers (position management,
\* risk and collateral, oracle and price, asset and token, interest rate), the
\* full invariant catalog, the severity and impact taxonomy, the output format
\* with the tagged question line, the target count with its never-empty floor.
C14_GeneratorSectionOrder ==
    call.op = "question_generator" =>
        /\ call.ret[1] = question_generator_template[1]
        /\ OnceInOrder(call.ret, GeneratorSections)
        /\ HoldsCatalog(SubSeq(call.ret, Pos(call.ret, GeneratorCatalogHeading),
                                         Pos(call.ret, GeneratorTaxonomyHeading)))
        /\ Pos(call.ret, QuestionTag) > Pos(call.ret, GeneratorFormatHeading)
        /\ Pos(call.ret, QuestionTag) < Pos(call.ret, GeneratorOutputHeading)
C14_Witness ==
    /\ call.op = "question_generator"
    /\ call.arg # <<>>
    /\ Pos(call.ret, "### **5. Interest Rate Layer**") > Pos(call.ret, "### **1. Position Management Layer**")
    /\ Pos(call.ret, GeneratorCatalogHeading) > Pos(call.ret, "### **5. Interest Rate Layer**")
    /\ Pos(call.ret, NeverEmptyFloor) > Pos(call.ret, TargetCountHeading)

(***************************************************************************)
(* Target files (SpecTargets).                                             *)
(***************************************************************************)
\* the lines of the target count, and the largest count each of them asks for
LargeTier ==
    "- For large critical files (>1000 nSLOC like PanopticPool.sol, RiskEngine.sol): Aim for 100-150 questions"
MediumTier == "- For medium files (300-1000 nSLOC): Aim for 50-100 questions"
SmallTier == "- For smaller files (<300 nSLOC): Aim for 20-50 questions"
TierCount(line) ==
    CASE line = LargeTier -> 150
      [] line = MediumTier -> 100
      [] line = SmallTier -> 50
\* the largest count the target-count section of a prompt asks for
RequestedCount(text) ==
    LET section == SubSeq(text, Pos(text, TargetCountHeading), Pos(text, NeverEmptyFloor))
        asked == {TierCount(l) : l \in Range(section) \cap {LargeTier, MediumTier, SmallTier}}
    IN  IF asked = {} THEN 0 ELSE CHOOSE c \in asked : \A d \in asked : d <= c
RiskEngineTargets == {<<questions_generator[2]>>, <<"contracts/RiskEngine.sol">>}
PoolDataTargets == {<<questions_generator[5]>>, <<"contracts/PoolData.sol">>}

\* C15: the prompt question_generator returns for RiskEngine.sol asks in its
\* output contract for a larger target count than the prompt it returns for
\* PoolData.sol, the larger file getting the larger count.
C15_CountScalesWithTarget ==
    (/\ call.op = "question_generator" /\ memo.op = "question_generator"
     /\ memo.arg \in RiskEngineTargets /\ call.arg \in PoolDataTargets)
        => RequestedCount(memo.ret) > RequestedCount(call.ret)

\* the target is an entry of the list questions_generator
Recognized(t) == Len(t) = 1 /\ t[1] \in Range(questions_generator)
\* texts a and b of composer op, returned for inputs x and y, hold the same
\* fixed text at the same places outside the slots
SameFixedText(op, x, a, y, b) ==
    /\ Len(a) + Cardinality(SlotIndexes(op)) * Len(y)
         = Len(b) + Cardinality(SlotIndexes(op)) * Len(x)
    /\ \A j \in (1..Len(Template(op))) \ SlotIndexes(op) :
          a[SlotStart(op, x, j)] = b[SlotStart(op, y, j)]

\* C16: question_generator(t) returns a complete prompt with every section for
\* every t, an entry of questions_generator or not: the list is never looked
\* at, and an unlisted target loses no section and raises nothing.
C16_UnlistedTargetAccepted ==
    call.op = "question_generator" =>
        /\ Complete(call.op, call.arg, call.ret)
        /\ OnceInOrder(call.ret, GeneratorSections)
        /\ \A i \in SlotIndexes(call.op) : EmbeddedAt(call.op, call.arg, call.ret, i)
        /\ memo.op = "question_generator"
              => SameFixedText(call.op, call.arg, call.ret, memo.arg, memo.ret)
C16_Witness ==
    /\ call.op = "question_generator"
    /\ memo.op = "question_generator"
    /\ ~memo.last
    /\ Recognized(memo.arg)
    /\ call.arg # <<>> /\ ~Recognized(call.arg)
    /\ Complete(call.op, call.arg, call.ret)

SectionsOf(op) ==
    CASE op = "question_format" -> InvestigationSections
      [] op = "validation_format" -> ValidationSections
      [] op = "question_generator" -> GeneratorSections

\* C17: question_format(""), validation_format("") and question_generator("")
\* each return a prompt that is not empty and holds every section the composer
\* produces for an input that is not empty, in the same order, nothing cut.
C17_EmptyInputFullPrompt ==
    (call.op # "none" /\ call.arg = <<>>) =>
        /\ call.ret # <<>>
        /\ Len(call.ret) + Cardinality(SlotIndexes(call.op)) = Len(Template(call.op))
        /\ call.ret[Len(call.ret)] = Template(call.op)[Len(Template(call.op))]
        /\ OnceInOrder(call.ret, SectionsOf(call.op))
        /\ (memo.op = call.op /\ memo.arg # <<>>)
              => SameFixedText(call.op, call.arg, call.ret, memo.arg, memo.ret)
C17_Witness ==
    /\ call.op = "question_generator"
    /\ call.arg = <<>>
    /\ memo.op = call.op
    /\ memo.arg # <<>>
    /\ Len(memo.ret) > Len(call.ret)
    /\ call.ret # <<>>

\* the place of the question slot in the investigation template
QuestionSlot == CHOOSE i \in question_format_slots : TRUE
\* the investigation prompt before and after its question slot
BeforeQuestion(arg, ret) == SubSeq(ret, 1, QuestionSlot - 1)
AfterQuestion(arg, ret) == SubSeq(ret, QuestionSlot + Len(arg), Len(ret))

\* C18: for any two questions q1 and q2, question_format(q1) and
\* question_format(q2) hold the same fixed text before the question slot and
\* the same fixed text after it, the question stands in exactly one slot, and
\* the length of the output is a constant plus the length of the question.
C18_StructureIndependentOfQuestion ==
    call.op = "question_format" =>
        /\ Cardinality(question_format_slots) = 1
        /\ Len(call.ret) + 1 = Len(question_format_template) + Len(call.arg)
        /\ \A a \in Range(call.arg) \ question_format_fixed :
              Count(call.ret, a) = Count(call.arg, a)
        /\ memo.op = "question_format" =>
              /\ BeforeQuestion(call.arg, call.ret) = BeforeQuestion(memo.arg, memo.ret)
              /\ AfterQuestion(call.arg, call.ret) = AfterQuestion(memo.arg, memo.ret)
              /\ Len(call.ret) + Len(memo.arg) = Len(memo.ret) + Len(call.arg)
C18_Witness ==
    /\ call.op = "question_format"
    /\ memo.op = "question_format"
    /\ ~memo.last
    /\ call.arg # <<>>
    /\ memo.arg # call.arg
    /\ AfterQuestion(call.arg, call.ret) = AfterQuestion(memo.arg, memo.ret)
    /\ AfterQuestion(call.arg, call.ret) # <<>>

ReportingChecklistHeading == "**VALIDATION CHECKLIST (Before Reporting):**"
CriticalChecklistHeading == "### **CRITICAL VALIDATION CHECKLIST**"
\* the headings of the checklists and domain sections of each prompt
ChecklistHeadings(op) ==
    CASE op = "question_format" ->
            (Range(InvestigationSections) \ {OutputHeading}) \cup {ReportingChecklistHeading}
      [] op = "validation_format" ->
            (Range(ValidationSections) \ {ValidationOutputHeading})
                \cup {LikelihoodHeading, CriticalChecklistHeading}
      [] op = "question_generator" ->
            Range(GeneratorSections)
                \ {GeneratorOutputHeading, TargetCountHeading, NeverEmptyFloor}
\* where the output contract of a prompt is closed: the last statement of the
\* sentinel in the investigation and validation prompts, the heading of the
\* output requirements in the question-generation prompt
ContractClose(op, text) ==
    IF op = "question_generator" THEN Pos(text, GeneratorOutputHeading)
    ELSE LET S == Occurrences(text, Sentinel)
         IN  IF S = {} THEN 0 ELSE CHOOSE i \in S : \A j \in S : j <= i

\* C19: in the output of each of the three composers the output contract is
\* the final section: no checklist and no domain section stands after it.
C19_ContractIsFinalSection ==
    call.op # "none" =>
        \A h \in ChecklistHeadings(call.op) :
            Pos(call.ret, h) < ContractClose(call.op, call.ret)

\* the lines of the two output contracts
OutputOnly == "**Output ONLY:**"
ReportOutcome ==
    "- A full audit report (if genuinely valid after passing **all** checks above) following the specified format"
AnyCheckFails == "(if **any** check fails)"
IfValid == "**If VALID (extremely rare"
ProduceReport == "Produce a full audit report with these sections and please make it short:"
IfInvalid == "**If INVALID (default when any condition fails):**"
OutputExactly == "Output exactly:"

\* the investigation prompt closes with a contract of two outcomes: a report
\* when all checks pass, the sentinel when any check fails
InvestigationTwoOutcomes(text) ==
    LET k == Pos(text, OutputOnly)
    IN  /\ k > Pos(text, OutputHeading)
        /\ Count(text, OutputOnly) = 1
        /\ k + 4 = Len(text)
        /\ text[k + 1] = ReportOutcome
        /\ text[k + 2] = Sentinel
        /\ text[k + 3] = AnyCheckFails
\* the output contract of the validation prompt has two cases: valid, with a
\* report, and invalid, the default when any condition fails, with the sentinel
ValidationTwoOutcomes(text) ==
    LET v == Pos(text, IfValid)
        i == Pos(text, IfInvalid)
    IN  /\ v > Pos(text, ValidationOutputHeading)
        /\ i > v
        /\ Count(text, IfValid) = 1 /\ Count(text, IfInvalid) = 1
        /\ text[v + 1] = ProduceReport
        /\ text[i + 1] = OutputExactly
        /\ text[i + 2] = Sentinel
        /\ Count(text, Sentinel) = 1

\* C20: the output contract of the investigation prompt and that of the
\* validation prompt each allow two outputs, a structured report or the
\* sentinel, and tell the consumer to output the sentinel when any check or
\* condition fails: a report is allowed only when all checks pass, and the
\* sentinel is the default.
C20_TwoOutcomeContract ==
    /\ call.op = "question_format" => InvestigationTwoOutcomes(call.ret)
    /\ call.op = "validation_format" => ValidationTwoOutcomes(call.ret)
C20_Witness ==
    /\ call.op = "validation_format"
    /\ call.arg # <<>>
    /\ memo.op = "question_format"
    /\ InvestigationTwoOutcomes(memo.ret)
    /\ ValidationTwoOutcomes(call.ret)

(***************************************************************************)
(* Effects of the operations.                                              *)
(***************************************************************************)
\* C21: a call of question_format, validation_format or question_generator
\* changes neither questions, nor questions_generator, nor the corpus file,
\* and reads no corpus: all it does is return its text.
C21_ComposersChangeNothing ==
    [][(call' # call \/ memo' # memo)
          => (/\ questions' = questions
              /\ targets' = targets
              /\ corpus' = corpus
              /\ load' = load
              /\ pc' = pc)]_vars
\* a composer has run while the corpus file was not what the import loaded,
\* and no corpus read has happened since the file changed
C21_Witness ==
    /\ call.op # "none"
    /\ ~load.done
    /\ targets = questions_generator
    /\ questions # get_questions(corpus).value


\* C22: when callers run the composers at the same time, in any interleaving
\* and with any inputs, each call returns exactly the text it returns when
\* run alone, and the text a call in flight has composed is its own.
C22_ConcurrentCallsDoNotInterfere ==
    \A c \in Callers :
        /\ frames[c].stage = "bound"
              => prompts[prompt_scope(c)] = Result(frames[c].op, frames[c].arg)
        /\ frames[c].stage = "returned"
              => frames[c].ret = Result(frames[c].op, frames[c].arg)
\* one caller's call has returned while another caller's call, of another
\* composer, has composed its text and not yet returned it
C22_Witness ==
    \E c \in Callers : \E d \in Callers \ {c} :
        /\ frames[c].stage = "returned"
        /\ frames[d].stage = "bound"
        /\ frames[c].op # frames[d].op
        /\ frames[c].arg # <<>>


\* C23: get_questions never creates, writes, truncates or deletes the corpus
\* file: whatever the load's outcome, the file after the call is the file
\* before it.
C23_LoadLeavesCorpusAlone ==
    [][load'.done => corpus' = corpus]_vars
\* a load has found no usable corpus, fallen back to the empty list, and
\* the file is still missing or still holds the malformed text
C23_Witness ==
    /\ load.done
    /\ load.value = EmptyList
    /\ (corpus = Absent \/ Malformed(corpus))
    /\ pc = "ready"


\* C24: every operation returns a value and never an error, for every input
\* text and every state of the corpus file: a load raises nothing and yields
\* a value, the import completes, and a composer call yields a text.
C24_EveryOperationReturns ==
    /\ load.raised = "none"
    /\ (load.done => load.value # Unbound)
    /\ pc \in {"import", "ready"}
    /\ (call.op # "none" => (call.ret # <<>> /\ call.ret = Result(call.op, call.arg)))
\* a load has returned on a corpus file that cannot be read, and a composer
\* has returned on an input that is not empty
C24_Witness ==
    /\ load.done
    /\ corpus.state = "unreadable"
    /\ call.op # "none"
    /\ call.arg # <<>>


(***************************************************************************)
(* The trust model of the investigation and validation prompts.            *)
(***************************************************************************)
TrustedHeading == "**Trusted Roles**:"
UntrustedHeading == "**Untrusted Actors**:"
\* the heading that follows the list of untrusted actors in each prompt
TrustModelEnd(op) ==
    IF op = "question_format" THEN "**KNOWN ISSUES / EXCLUSIONS:**"
    ELSE "#### **C. Known Issues / Accepted Risks**"
\* the role each phrase of the two lists names: (phrase, role) pairs
trust_roles ==
    {<<"Uniswap pools", "liquidity venue">>,
     <<"Uniswap pools provide liquidity and price feeds", "liquidity venue">>,
     <<"oracle data providers", "oracle provider">>,
     <<"oracles provide signed data", "oracle provider">>,
     <<"guardian addresses", "guardian">>,
     <<"guardian can lock/unlock pools in emergencies", "guardian">>,
     <<"Any user minting/burning positions", "caller">>,
     <<"liquidators", "liquidator">>,
     <<"exercisers", "exerciser">>,
     <<"force exercisers", "exerciser">>,
     <<"attackers attempting price manipulation", "attacker">>}
\* the roles named in text between the heading at place from and the one at to
RolesBetween(text, from, to) ==
    {p[2] : p \in {q \in trust_roles : \E i \in (from + 1)..(to - 1) : text[i] = q[1]}}
TrustedRoles(op, text) ==
    RolesBetween(text, Pos(text, TrustedHeading), Pos(text, UntrustedHeading))
UntrustedActors(op, text) ==
    RolesBetween(text, Pos(text, UntrustedHeading), Pos(text, TrustModelEnd(op)))
StatesTrustModel(op) == op \in {"question_format", "validation_format"}
TrustPartition(op, text) ==
    /\ Pos(text, TrustedHeading) > 0
    /\ Pos(text, UntrustedHeading) > Pos(text, TrustedHeading)
    /\ Pos(text, TrustModelEnd(op)) > Pos(text, UntrustedHeading)
    /\ TrustedRoles(op, text) = {"liquidity venue", "oracle provider", "guardian"}
    /\ {"caller", "liquidator", "exerciser"} \subseteq UntrustedActors(op, text)
    /\ TrustedRoles(op, text) \cap UntrustedActors(op, text) = {}

\* C25: in the investigation and the validation prompt the trusted roles are
\* exactly the oracle providers, the Uniswap pools and the guardian, the
\* untrusted actors include ordinary callers, liquidators and exercisers, no
\* role is on both sides, and the two prompts state the same partition.
C25_TrustModelPartition ==
    /\ StatesTrustModel(call.op) => TrustPartition(call.op, call.ret)
    /\ (StatesTrustModel(call.op) /\ StatesTrustModel(memo.op))
          => /\ TrustedRoles(call.op, call.ret) = TrustedRoles(memo.op, memo.ret)
             /\ UntrustedActors(call.op, call.ret) = UntrustedActors(memo.op, memo.ret)
\* an investigation prompt and then a validation prompt have been composed,
\* both on an input that is not empty
C25_Witness ==
    /\ memo.op = "question_format"
    /\ call.op = "validation_format"
    /\ memo.arg # <<>>
    /\ call.arg # <<>>
    /\ "attacker" \in UntrustedActors(call.op, call.ret)


\* C26: the corpus is read once, at startup: the import binds questions to
\* what its read of the corpus returns, no composer runs before that, and from
\* then on questions keeps that value, whatever happens to the corpus file and
\* however often get_questions is called again.
C26_CorpusReadOnceAtStartup ==
    [][/\ (pc = "import" /\ pc' # "import")
             => (questions' = get_questions(corpus).value /\ call = NoCall)
       /\ (pc = "import" /\ pc' = "import") => (questions' = Unbound /\ call' = NoCall)
       /\ pc = "ready" => (questions' = questions /\ pc' = "ready")]_vars
\* after the import the corpus file has changed and get_questions has been
\* called again: it returned another value than the one questions holds
C26_Witness ==
    /\ pc = "ready"
    /\ load.done
    /\ load.value # questions
    /\ call.op # "none"


(***************************************************************************)
(* The numbering of the invariant catalog.                                 *)
(***************************************************************************)
HoldsCatalogOf(op) == op \in {"question_format", "question_generator"}
\* the heading the catalog follows and the heading that follows it
CatalogStart(op) ==
    IF op = "question_format"
    THEN "**CRITICAL INVARIANTS (derived from protocol specification and code):**"
    ELSE GeneratorCatalogHeading
CatalogEnd(op) ==
    IF op = "question_format" THEN "**YOUR INVESTIGATION MISSION:**"
    ELSE GeneratorTaxonomyHeading
\* the catalog as it stands in a prompt
CatalogText(op, text) ==
    SubSeq(text, Pos(text, CatalogStart(op)) + 1, Pos(text, CatalogEnd(op)) - 1)
Numerals == [k \in 1..CatalogSize |-> Numeral(k)]
NumeralSet == Range(Numerals)
\* the entry numbers of a catalog, in the order they stand in
EntryNumbers(catalog) == SelectSeq(catalog, LAMBDA a : a \in NumeralSet)
\* the title that follows the number k in a catalog
TitleOf(catalog, k) == catalog[Pos(catalog, Numeral(k)) + 1]
\* the number of invariants the validation prompt speaks of, and the sentence
\* that does so
ReferredCount == 26
ReferringSentence ==
    "**Security Property Broken**: [Which of the 26 Panoptic invariants is violated]"

\* C27: the investigation prompt and the question-generation prompt number
\* their invariants 1, 2, ... with no number skipped or repeated, the invariant
\* numbered k has the same title in both, and the number of entries is the
\* number of invariants the validation prompt refers to.
C27_InvariantNumbersStable ==
    /\ HoldsCatalogOf(call.op)
          => LET c == CatalogText(call.op, call.ret)
             IN  /\ EntryNumbers(c) = Numerals
                 /\ Len(EntryNumbers(c)) = ReferredCount
    /\ (HoldsCatalogOf(call.op) /\ HoldsCatalogOf(memo.op))
          => LET c == CatalogText(call.op, call.ret)
                 m == CatalogText(memo.op, memo.ret)
             IN  \A k \in 1..ReferredCount : TitleOf(c, k) = TitleOf(m, k)
    /\ call.op = "validation_format" => ReferringSentence \in Range(call.ret)
\* an investigation prompt and then a question-generation prompt have been
\* composed, and the latter gives invariant 26 its title
C27_Witness ==
    /\ memo.op = "question_format"
    /\ call.op = "question_generator"
    /\ call.arg # <<>>
    /\ TitleOf(CatalogText(call.op, call.ret), ReferredCount) = "**Solvency Check Timing**"


(***************************************************************************)
(* Substitution (SpecBraces, SpecTargets).                                 *)
(***************************************************************************)
\* the input holds a brace or the text of a replacement field
Braced(x) == \E i \in 1..Len(x) : x[i] \in BraceAtoms

\* C28: an input that holds braces or the text of a replacement field is
\* embedded as it is, in every slot, and is not read as a field again; the
\* call returns a text, and the fixed text around the slots is the same as
\* for an input without braces.
C28_SubstitutionIsSinglePass ==
    (call.op # "none" /\ Braced(call.arg)) =>
        /\ call.ret # <<>>
        /\ \A i \in SlotIndexes(call.op) : EmbeddedAt(call.op, call.arg, call.ret, i)
        /\ (memo.op = call.op /\ ~Braced(memo.arg))
              => SameFixedText(call.op, call.arg, call.ret, memo.arg, memo.ret)
\* a composer has run on plain text and then on an escaped brace
C28_Witness ==
    /\ call.op # "none"
    /\ call.arg = <<"{{">>
    /\ memo.op = call.op
    /\ memo.arg = <<"x">>
    /\ ~memo.last


\* the number of places where question_generator names its target
TargetSlots == 14

\* C29: question_generator(t) has 14 slots for the target file, each of them
\* holds t, none keeps the replacement field, and the outputs for two targets
\* differ at the slots only: the length of the output is a constant plus 14
\* times the length of t.
C29_TargetSubstitutedUniformly ==
    call.op = "question_generator" =>
        /\ Cardinality(question_generator_slots) = TargetSlots
        /\ \A i \in question_generator_slots : EmbeddedAt(call.op, call.arg, call.ret, i)
        /\ "{target_file}" \notin Range(call.ret)
        /\ Len(call.ret) + TargetSlots
             = Len(question_generator_template) + TargetSlots * Len(call.arg)
        /\ memo.op = "question_generator"
              => SameFixedText(call.op, call.arg, call.ret, memo.arg, memo.ret)
\* question_generator has run on two different targets
C29_Witness ==
    /\ call.op = "question_generator"
    /\ memo.op = "question_generator"
    /\ ~memo.last
    /\ memo.arg # <<>>
    /\ call.arg # <<>>
    /\ call.arg # memo.arg
    /\ Cardinality(Occurrences(call.ret, call.arg[1])) >= TargetSlots


(***************************************************************************)
(* The file inventories of the prompts and the list of targets.            *)
(***************************************************************************)
\* each entry of questions_generator and the path it names, the entry without
\* its leading "./": (entry, path) pairs
target_paths ==
    {<<"./contracts/PanopticPool.sol", "contracts/PanopticPool.sol">>,
     <<"./contracts/RiskEngine.sol", "contracts/RiskEngine.sol">>,
     <<"./contracts/types/OraclePack.sol", "contracts/types/OraclePack.sol">>,
     <<"./contracts/types/MarketState.sol", "contracts/types/MarketState.sol">>,
     <<"./contracts/types/PoolData.sol", "contracts/types/PoolData.sol">>,
     <<"./contracts/types/RiskParameters.sol", "contracts/types/RiskParameters.sol">>,
     <<"./contracts/SemiFungiblePositionManager.sol",
       "contracts/SemiFungiblePositionManager.sol">>,
     <<"./contracts/SemiFungiblePositionManagerV4.sol",
       "contracts/SemiFungiblePositionManagerV4.sol">>,
     <<"./contracts/CollateralTracker.sol", "contracts/CollateralTracker.sol">>,
     <<"./contracts/libraries/PanopticMath.sol", "contracts/libraries/PanopticMath.sol">>,
     <<"./contracts/libraries/Math.sol", "contracts/libraries/Math.sol">>,
     <<"./contracts/types/TokenId.sol", "contracts/types/TokenId.sol">>}
\* the files of the repository by the name the prompts call them: (name, path)
file_names ==
    {<<"PanopticPool.sol", "contracts/PanopticPool.sol">>,
     <<"RiskEngine.sol", "contracts/RiskEngine.sol">>,
     <<"OraclePack.sol", "contracts/types/OraclePack.sol">>,
     <<"MarketState.sol", "contracts/types/MarketState.sol">>,
     <<"PoolData.sol", "contracts/types/PoolData.sol">>,
     <<"RiskParameters.sol", "contracts/types/RiskParameters.sol">>,
     <<"SemiFungiblePositionManager.sol", "contracts/SemiFungiblePositionManager.sol">>,
     <<"SemiFungiblePositionManagerV4.sol", "contracts/SemiFungiblePositionManagerV4.sol">>,
     <<"CollateralTracker.sol", "contracts/CollateralTracker.sol">>,
     <<"PanopticMath.sol", "contracts/libraries/PanopticMath.sol">>,
     <<"Math.sol", "contracts/libraries/Math.sol">>,
     <<"TokenId.sol", "contracts/types/TokenId.sol">>}
\* the phrases that name a file with its size in the inventories of the
\* investigation and the validation prompt: (phrase, file name) pairs
sized_names ==
    {<<"PanopticPool.sol (1183 nSLOC", "PanopticPool.sol">>,
     <<"SemiFungiblePositionManager.sol (673 nSLOC", "SemiFungiblePositionManager.sol">>,
     <<"SemiFungiblePositionManagerV4.sol (631 nSLOC", "SemiFungiblePositionManagerV4.sol">>,
     <<"RiskEngine.sol (1294 nSLOC", "RiskEngine.sol">>,
     <<"CollateralTracker.sol (863 nSLOC", "CollateralTracker.sol">>,
     <<"OraclePack.sol (291 nSLOC", "OraclePack.sol">>,
     <<"PanopticMath.sol (369 nSLOC", "PanopticMath.sol">>,
     <<"Math.sol (641 nSLOC", "Math.sol">>,
     <<"RiskParameters.sol (72 nSLOC", "RiskParameters.sol">>,
     <<"MarketState.sol (65 nSLOC", "MarketState.sol">>,
     <<"PoolData.sol (42 nSLOC", "PoolData.sol">>,
     <<"TokenId.sol (232 nSLOC", "TokenId.sol">>,
     <<"PanopticPool.sol (1183 nSLOC)", "PanopticPool.sol">>,
     <<"RiskEngine.sol (1294 nSLOC)", "RiskEngine.sol">>,
     <<"CollateralTracker.sol (863 nSLOC)", "CollateralTracker.sol">>,
     <<"SemiFungiblePositionManager.sol (673 nSLOC)", "SemiFungiblePositionManager.sol">>,
     <<"SemiFungiblePositionManagerV4.sol (631 nSLOC)",
       "SemiFungiblePositionManagerV4.sol">>,
     <<"OraclePack.sol (291 nSLOC)", "OraclePack.sol">>,
     <<"MarketState.sol (65 nSLOC)", "MarketState.sol">>,
     <<"PoolData.sol (42 nSLOC)", "PoolData.sol">>,
     <<"RiskParameters.sol (72 nSLOC)", "RiskParameters.sol">>,
     <<"TokenId.sol (232 nSLOC)", "TokenId.sol">>,
     <<"PanopticMath.sol (369 nSLOC)", "PanopticMath.sol">>,
     <<"Math.sol (641 nSLOC)", "Math.sol">>}
\* the comments that declare a size in core_files
size_comments ==
    {"# 1183 nSLOC", "# 1294 nSLOC", "# 673 nSLOC", "# 631 nSLOC", "# 863 nSLOC",
     "# 291 nSLOC", "# 65 nSLOC", "# 42 nSLOC", "# 72 nSLOC", "# 369 nSLOC", "# 641 nSLOC"}
\* the headings an inventory stands between
InventoryStart(op) ==
    CASE op = "question_format" -> "**Key Components**:"
      [] op = "validation_format" -> "**In-Scope Files (11 total):**"
      [] op = "question_generator" -> "core_files = ["
InventoryEnd(op) ==
    CASE op = "question_format"
           -> "**Files in Scope**: All 11 core contracts in the contracts/ directory."
      [] op = "validation_format"
           -> "**Verify**: Check that every file path cited in the report matches exactly one of the 11 in-scope contracts."
      [] op = "question_generator"
           -> "**Total: 11 files in full scope (but focus ONLY on "
\* the paths of the files an inventory names with a declared size
InventoryOf(op, text) ==
    LET from == Pos(text, InventoryStart(op))
        to == Pos(text, InventoryEnd(op))
        inside == (from + 1)..(to - 1)
    IN  IF op = "question_generator"
        THEN {p[2] : p \in {q \in file_names :
                 \E i \in inside : text[i] = q[2] /\ text[i + 1] \in size_comments}}
        ELSE {Lookup(file_names, p[2]) : p \in {q \in sized_names :
                 \E i \in inside : text[i] = q[1]}}

\* C30: every entry of questions_generator, read without its leading "./", is
\* named with a declared size in the inventory core_files of the
\* question-generation prompt, and the inventories of the three prompts name
\* the same files.
C30_TargetsCoveredByInventory ==
    /\ call.op = "question_generator"
          => \A k \in 1..Len(questions_generator) :
                 Lookup(target_paths, questions_generator[k])
                     \in InventoryOf(call.op, call.ret)
    /\ (call.op # "none" /\ memo.op # "none")
          => InventoryOf(call.op, call.ret) = InventoryOf(memo.op, memo.ret)

=============================================================================
